---- MODULE Spec2Model ----
(***************************************************************************)
(* spot_rev: an hourly job that empties a destination playlist and refills *)
(* it with the source playlist's tracks, newest first (src/src/main.rs).   *)
(*                                                                         *)
(* The model has the scheduler driver (main), the workflow runs (do_work   *)
(* with get_token, reset_reversed, get_songs, add_songs) and the remote    *)
(* service holding the playlists.  One action is one remote call together  *)
(* with the local code that precedes and follows it up to the next await.  *)
(***************************************************************************)
EXTENDS Integers, Sequences, FiniteSets, TLC

VARIABLES
    mainPc,     \* main: "loop" (lines 28-36) or "terminated" (line 34)
    env,        \* the process environment read by std::env::var
    playlist,   \* the remote service: playlist id -> sequence of Song
    run         \* run slot -> the locals of one do_work invocation

vars == <<mainPc, env, playlist, run>>

(***************************************************************************)
(* Bounds of the model.                                                    *)
(***************************************************************************)
MaxRuns == 2        \* run slots: do_work invocations alive at once
MaxItems == 2       \* longest source playlist when runs may overlap
MaxSrc == 3         \* longest enumerated source playlist of a lone run
MaxLen == 4         \* longest input of the ordering computation
MaxPages == 3       \* most pages one get_songs call is given

(***************************************************************************)
(* Program constants.                                                      *)
(***************************************************************************)
PageLimit == 50     \* limit=50 and offset += 50
BatchSize == 2      \* vec![first, next]

(***************************************************************************)
(* Strings.  added_at is a Rust String, compared by Ord::cmp: bytewise     *)
(* lexicographic order.  A string is modelled as its sequence of bytes.    *)
(***************************************************************************)
T2021_01 == <<50,48,50,49,45,48,49,45,48,49,84,48,48,58,48,48,58,48,48,90>>
T2021_06 == <<50,48,50,49,45,48,54,45,48,49,84,48,48,58,48,48,58,48,48,90>>
T2020_01 == <<50,48,50,48,45,48,49,45,48,49,84,48,48,58,48,48,58,48,48,90>>
\* "2021-01-01T00:00:00Z", "2021-06-01T00:00:00Z", "2020-01-01T00:00:00Z"
Stamps == {T2021_01, T2021_06, T2020_01}

\* the added_at the service gives an item appended now: later than all above
TNow == <<50,48,50,50,45,48,49,45,48,49,84,48,48,58,48,48,58,48,48,90>>

UriNames == <<"A", "B", "C", "D", "E", "F">>

\* Ord::cmp on strings: -1 (Less), 0 (Equal), 1 (Greater)
RECURSIVE StrCmp(_, _)
StrCmp(a, b) ==
    IF a = <<>> THEN (IF b = <<>> THEN 0 ELSE -1)
    ELSE IF b = <<>> THEN 1
    ELSE IF Head(a) < Head(b) THEN -1
    ELSE IF Head(a) > Head(b) THEN 1
    ELSE StrCmp(Tail(a), Tail(b))

(***************************************************************************)
(* Song { added_at, is_local, track: Track { uri } }                       *)
(***************************************************************************)
Song(at, local, uri) == [added_at |-> at, is_local |-> local, uri |-> uri]

\* the comparator handed to sorted_by (line 76)
CmpAddedAt(first, second) == StrCmp(first.added_at, second.added_at)

\* .filter(|song| !song.is_local)
RECURSIVE FilterNotLocal(_)
FilterNotLocal(s) ==
    IF s = <<>> THEN <<>>
    ELSE IF Head(s).is_local THEN FilterNotLocal(Tail(s))
         ELSE <<Head(s)>> \o FilterNotLocal(Tail(s))

\* a bug: the element goes before the elements equal to it (unstable)
RECURSIVE InsertBeforeEqual(_, _)
InsertBeforeEqual(t, x) ==
    IF t = <<>> THEN <<x>>
    ELSE IF CmpAddedAt(Head(t), x) >= 0 THEN <<x>> \o t
         ELSE <<Head(t)>> \o InsertBeforeEqual(Tail(t), x)

\* one step of a stable sort: x, which followed every element of the sorted
\* t in the input, goes after the elements that do not compare Greater
RECURSIVE InsertSorted(_, _)
InsertSorted(t, x) ==
    IF t = <<>> THEN <<x>>
    ELSE IF CmpAddedAt(Head(t), x) > 0 THEN <<x>> \o t
         ELSE <<Head(t)>> \o InsertSorted(Tail(t), x)

\* .sorted_by(cmp): itertools collects and calls the stable slice::sort_by
RECURSIVE SortedBy(_)
SortedBy(s) ==
    IF s = <<>> THEN <<>>
    ELSE InsertSorted(SortedBy(SubSeq(s, 1, Len(s) - 1)), s[Len(s)])

\* .map(|song| song.track.uri)
MapUri(s) == [i \in 1..Len(s) |-> s[i].uri]

\* .rev()
Rev(s) == [i \in 1..Len(s) |-> s[Len(s) + 1 - i]]

\* a bug: the reversal is left out
ComputeOrderNoRev(songs) == MapUri(SortedBy(FilterNotLocal(songs)))

\* a bug: local items are kept
ComputeOrderKeepLocal(songs) == Rev(MapUri(SortedBy(songs)))

\* lines 73-78: the iterator do_work consumes
ComputeOrder(songs) == Rev(MapUri(SortedBy(FilterNotLocal(songs))))

(***************************************************************************)
(* Option<T>: <<>> is None, <<v>> is Some(v).                              *)
(***************************************************************************)
None == <<>>
Some(v) == <<v>>
IsSome(o) == o # <<>>

Min(a, b) == IF a < b THEN a ELSE b

\* a bug: 3xx counts as success
IsOk3xx(status) == status \in 200..399

\* OkExt::ok: Ok(self) exactly for 200..=299
IsOk(status) == status \in 200..299

(***************************************************************************)
(* The remote service.                                                     *)
(***************************************************************************)
Playlists == {"P1", "P2"}

\* the service carries a request out exactly when it answers 2xx
Applied(status) == status >= 200 /\ status < 300

\* GET /playlists/{id}/tracks?offset={offset}&limit=50: Pagination<Song>
ServerPage(pl, offset) ==
    [items |-> SubSeq(pl, offset + 1, Min(offset + PageLimit, Len(pl))),
     next  |-> IF offset + PageLimit < Len(pl) THEN Some("next") ELSE None]

\* PUT /playlists/{id}/tracks with {"uris": uris}: the list is replaced
ServerReplace(pl, uris) == [i \in 1..Len(uris) |-> Song(TNow, FALSE, uris[i])]

\* POST /playlists/{id}/tracks with {"uris": uris}: appended at the end
ServerAppend(pl, uris) == pl \o [i \in 1..Len(uris) |-> Song(TNow, FALSE, uris[i])]

(***************************************************************************)
(* One do_work invocation.  pc is the await the run is suspended at:       *)
(*   "none"  no invocation in this slot                                    *)
(*   "start" spawned, not yet polled (line 39)                             *)
(*   "reset" token held, about to call reset_reversed (line 55)            *)
(*   "fetch" inside the loop of get_songs (line 136)                       *)
(*   "sort"  get_songs returned Ok (line 71)                               *)
(*   "loop"  at the head of the append loop (line 80)                      *)
(*   "ok", "err"  do_work returned Ok(()) or Err(e)                        *)
(* History kept for the properties: log, the requests the run sent, each   *)
(* with what came back; status, the status of the last response; songs,    *)
(* the value get_songs returned; prev, how the invocation that had this    *)
(* slot before ended, the last request it had sent, and whether an aborted *)
(* invocation's appends are still in the destination.                      *)
(***************************************************************************)
Runs == 1..MaxRuns

FreshRun ==
    [pc |-> "none", from |-> "", to |-> "", token |-> FALSE,
     vec |-> <<>>, should_cont |-> TRUE, offset |-> 0, iter |-> <<>>,
     status |-> 0, songs |-> <<>>, log |-> <<>>,
     prev |-> [pc |-> "none", last |-> "", leftover |-> FALSE]]

Finished == {"none", "ok", "err"}
InProgress(rn) == rn.pc \notin Finished

\* a request the run sent: method, playlist, offset or uris; whether the
\* answer was taken as a success, and the page a GET brought
Sent(m, pl, arg, ok, body) == [m |-> m, pl |-> pl, arg |-> arg, ok |-> ok, body |-> body]

\* how a finished invocation ended; leftover: it, or an aborted invocation
\* before it with no reset since, returned Err after an append was answered
\* 2xx
Ended(rn) ==
    [pc |-> rn.pc, last |-> IF rn.log = <<>> THEN "" ELSE rn.log[Len(rn.log)].m,
     leftover |-> /\ rn.pc = "err"
                  /\ \/ \E k \in 1..Len(rn.log) : rn.log[k].m = "POST" /\ rn.log[k].ok
                     \/ /\ rn.prev.leftover
                        /\ ~\E k \in 1..Len(rn.log) : rn.log[k].m = "PUT" /\ rn.log[k].ok]

\* return Err(e): the locals are dropped
Failed(rn) ==
    [rn EXCEPT !.pc = "err", !.token = FALSE, !.vec = <<>>, !.iter = <<>>]

EnvVars == {"FROM", "TO", "REFRESH_TOKEN", "CLIENT_ID", "CLIENT_SECRET"}

\* a bug: a missing CLIENT_SECRET is read as the empty string
TokenStepDefaultsSecret(rn, e, clientOk, resp) ==
    IF ~clientOk \/ e["FROM"] = None \/ e["TO"] = None
    THEN Failed(rn)
    ELSE IF e["REFRESH_TOKEN"] = None \/ e["CLIENT_ID"] = None
    THEN Failed(rn)
    ELSE LET sent == [rn EXCEPT !.from = e["FROM"][1], !.to = e["TO"][1],
                         !.status = resp.status,
                         !.log = @ \o <<Sent("TOKEN", "", <<>>, IsOk(resp.status), <<>>)>>]
         IN  IF IsOk(resp.status) /\ resp.json
             THEN [sent EXCEPT !.pc = "reset", !.token = TRUE]
             ELSE Failed(sent)

\* a bug: the call of reset_reversed is missing, the run goes on to get_songs
TokenStepSkipsReset(rn, e, clientOk, resp) ==
    IF ~clientOk \/ \E v \in EnvVars : e[v] = None
    THEN Failed(rn)
    ELSE LET sent == [rn EXCEPT !.from = e["FROM"][1], !.to = e["TO"][1],
                         !.status = resp.status,
                         !.log = @ \o <<Sent("TOKEN", "", <<>>, IsOk(resp.status), <<>>)>>]
         IN  IF IsOk(resp.status) /\ resp.json
             THEN [sent EXCEPT !.pc = "fetch", !.token = TRUE]
             ELSE Failed(sent)

\* a bug: the run goes on to reset whatever the token endpoint answered
TokenStepIgnoreStatus(rn, e, clientOk, resp) ==
    IF ~clientOk \/ \E v \in EnvVars : e[v] = None
    THEN Failed(rn)
    ELSE [rn EXCEPT !.pc = "reset", !.from = e["FROM"][1], !.to = e["TO"][1],
                    !.token = TRUE, !.status = resp.status,
                    !.log = @ \o <<Sent("TOKEN", "", <<>>, IsOk(resp.status), <<>>)>>]

\* lines 40-51 with get_token (lines 188-216)
TokenStep(rn, e, clientOk, resp) ==
    IF ~clientOk \/ e["FROM"] = None \/ e["TO"] = None
    THEN Failed(rn)
    ELSE IF e["REFRESH_TOKEN"] = None \/ e["CLIENT_ID"] = None
            \/ e["CLIENT_SECRET"] = None
    THEN Failed(rn)
    ELSE LET sent == [rn EXCEPT !.from = e["FROM"][1], !.to = e["TO"][1],
                         !.status = resp.status,
                         !.log = @ \o <<Sent("TOKEN", "", <<>>, IsOk(resp.status), <<>>)>>]
         IN  IF IsOk(resp.status) /\ resp.json
             THEN [sent EXCEPT !.pc = "reset", !.token = TRUE]
             ELSE Failed(sent)

\* a bug: the body names a track
ResetBodyOneTrack == <<"Z">>

\* lines 175-177: the body of the PUT is {"uris": []}
ResetBody == <<>>

\* a bug: the PUT goes to the source playlist
ResetRequestToSource(rn) == [pl |-> rn.from, uris |-> ResetBody]

\* lines 170-177: PUT /playlists/{playlist_id}/tracks, playlist_id = to
ResetRequest(rn) == [pl |-> rn.to, uris |-> ResetBody]

\* a bug: the result of reset_reversed is dropped, the run goes on to get_songs
ResetStepIgnoresFailure(rn, resp) ==
    LET req == ResetRequest(rn)
    IN  [rn EXCEPT !.pc = "fetch", !.status = resp.status,
                   !.log = @ \o <<Sent("PUT", req.pl, req.uris, IsOk(resp.status), <<>>)>>]

\* lines 55-61 with reset_reversed (lines 163-185): the run afterwards
ResetStep(rn, resp) ==
    LET req == ResetRequest(rn)
        sent == [rn EXCEPT !.status = resp.status,
                           !.log = @ \o <<Sent("PUT", req.pl, req.uris, IsOk(resp.status), <<>>)>>]
    IN  IF IsOk(resp.status) THEN [sent EXCEPT !.pc = "fetch"] ELSE Failed(sent)

\* a bug: the page replaces the accumulator
ExtendReplace(vec, items) == items

\* vec.extend(songs.items.into_iter())
Extend(vec, items) == vec \o items

\* a bug: the reader stops after the first page
ContinueNever(page) == FALSE

\* should_cont = songs.next.is_some()
Continue(page) == IsSome(page.next)

\* a bug: the next offset is the number of items received so far
NextOffsetByItems(offset, page) == offset + Len(page.items)

\* offset += 50 (offset is an i32: no overflow within the first 42 million
\* pages, far beyond MaxPages)
NextOffset(offset, page) == offset + PageLimit

\* a bug: when a page request fails, get_songs returns what it has so far
FetchStepKeepsPartial(rn, resp, page) ==
    LET parsed == IsOk(resp.status) /\ resp.json
        sent == [rn EXCEPT !.status = resp.status,
                           !.log = @ \o <<Sent("GET", rn.from, rn.offset, IsOk(resp.status),
                                               IF parsed THEN Some(page) ELSE None)>>]
    IN  IF parsed /\ Continue(page)
        THEN [sent EXCEPT !.vec = Extend(@, page.items), !.should_cont = TRUE,
                          !.offset = @ + PageLimit]
        ELSE [sent EXCEPT !.pc = "sort", !.should_cont = FALSE,
                          !.songs = IF parsed THEN Extend(sent.vec, page.items) ELSE sent.vec,
                          !.vec = <<>>]

\* one iteration of the loop of get_songs (lines 136-157) and, when the loop
\* ends, the return to do_work (lines 63-69)
FetchStep(rn, resp, page) ==
    LET parsed == IsOk(resp.status) /\ resp.json
        sent == [rn EXCEPT !.status = resp.status,
                           !.log = @ \o <<Sent("GET", rn.from, rn.offset, IsOk(resp.status),
                                               IF parsed THEN Some(page) ELSE None)>>]
    IN  IF parsed
        THEN LET got == [sent EXCEPT !.vec = Extend(@, page.items),
                                     !.should_cont = Continue(page),
                                     !.offset = NextOffset(@, page)]
             IN  IF got.should_cont THEN got
                 ELSE [got EXCEPT !.pc = "sort", !.songs = got.vec, !.vec = <<>>]
        ELSE Failed(sent)

\* lines 71-78
SortStep(rn) == [rn EXCEPT !.pc = "loop", !.iter = ComputeOrder(rn.songs)]

\* a bug: one URI per request
NextBatchOne(iter) == SubSeq(iter, 1, Min(1, Len(iter)))

\* lines 80-85: first, and next_next when there is one
NextBatch(iter) == SubSeq(iter, 1, Min(BatchSize, Len(iter)))

\* lines 110-116: POST /playlists/{playlist_id}/tracks, playlist_id = to
AddRequest(rn) == [pl |-> rn.to, uris |-> NextBatch(rn.iter)]

\* a bug: the error of add_songs is logged and the loop goes on
AddStepContinues(rn, resp) ==
    LET req == AddRequest(rn)
    IN  [rn EXCEPT !.iter = SubSeq(@, Len(req.uris) + 1, Len(@)),
                   !.status = resp.status,
                   !.log = @ \o <<Sent("POST", req.pl, req.uris, IsOk(resp.status), <<>>)>>]

\* lines 80-96 with add_songs (lines 102-122): the run afterwards
AddStep(rn, resp) ==
    LET req == AddRequest(rn)
        sent == [rn EXCEPT !.iter = SubSeq(@, Len(req.uris) + 1, Len(@)),
                           !.status = resp.status,
                           !.log = @ \o <<Sent("POST", req.pl, req.uris, IsOk(resp.status), <<>>)>>]
    IN  IF IsOk(resp.status) THEN sent ELSE Failed(sent)

\* a bug: the panic of unwrap on Err takes the process down
UnwrapAborts(rn, m) == IF rn.pc = "err" THEN "terminated" ELSE m

\* line 21, do_work().await.unwrap(): on Err the panic unwinds the job's
\* task, which the runtime catches; main (in state m) goes on
Unwrap(rn, m) == m

(***************************************************************************)
(* Actions.                                                                *)
(***************************************************************************)
Alive == mainPc = "loop"

\* the scheduler fires the job (lines 18-24): the job's future is spawned as
\* a task of its own, whether or not an earlier one is still running
Tick(r) ==
    /\ Alive
    /\ run[r].pc \in Finished
    /\ \A q \in Runs : q < r => InProgress(run[q])
    /\ run' = [run EXCEPT ![r] = [FreshRun EXCEPT !.pc = "start", !.prev = Ended(run[r])]]
    /\ UNCHANGED <<mainPc, env, playlist>>

\* the job fires while no earlier run is in progress
TickSolo(r) ==
    /\ \A q \in Runs : ~InProgress(run[q])
    /\ Tick(r)

GetToken(r, clientOk, resp) ==
    /\ Alive
    /\ run[r].pc = "start"
    /\ run' = [run EXCEPT ![r] = TokenStep(@, env, clientOk, resp)]
    /\ mainPc' = Unwrap(run'[r], mainPc)
    /\ UNCHANGED <<env, playlist>>

ResetReversed(r, resp) ==
    /\ Alive
    /\ run[r].pc = "reset"
    /\ LET req == ResetRequest(run[r])
       IN  /\ run' = [run EXCEPT ![r] = ResetStep(@, resp)]
           /\ playlist' = IF Applied(resp.status)
                          THEN [playlist EXCEPT ![req.pl] = ServerReplace(@, req.uris)]
                          ELSE playlist
    /\ mainPc' = Unwrap(run'[r], mainPc)
    /\ UNCHANGED env

GetSongs(r, resp, page) ==
    /\ Alive
    /\ run[r].pc = "fetch"
    /\ run' = [run EXCEPT ![r] = FetchStep(@, resp, page)]
    /\ mainPc' = Unwrap(run'[r], mainPc)
    /\ UNCHANGED <<env, playlist>>

Reorder(r) ==
    /\ Alive
    /\ run[r].pc = "sort"
    /\ run' = [run EXCEPT ![r] = SortStep(@)]
    /\ UNCHANGED <<mainPc, env, playlist>>

AddSongs(r, resp) ==
    /\ Alive
    /\ run[r].pc = "loop"
    /\ run[r].iter # <<>>
    /\ LET req == AddRequest(run[r])
       IN  /\ run' = [run EXCEPT ![r] = AddStep(@, resp)]
           /\ playlist' = IF Applied(resp.status)
                          THEN [playlist EXCEPT ![req.pl] = ServerAppend(@, req.uris)]
                          ELSE playlist
    /\ mainPc' = Unwrap(run'[r], mainPc)
    /\ UNCHANGED env

\* line 98
ReturnOk(r) ==
    /\ Alive
    /\ run[r].pc = "loop"
    /\ run[r].iter = <<>>
    /\ run' = [run EXCEPT ![r] = [@ EXCEPT !.pc = "ok", !.token = FALSE]]
    /\ UNCHANGED <<mainPc, env, playlist>>

\* lines 28-36: dur is what sched.time_till_next_job() gives
\* (Some: sleep and loop; None: return Err, the process exits and its tasks
\* end with it).  The query itself is taken to answer: the scheduler was
\* started at line 26 and keeps its one job in memory.
MainLoop(dur) ==
    /\ Alive
    /\ IF dur = "Some"
       THEN UNCHANGED <<mainPc, run>>
       ELSE /\ mainPc' = "terminated"
            /\ run' = [r \in Runs |-> FreshRun]
    /\ UNCHANGED <<env, playlist>>

(***************************************************************************)
(* Inputs.                                                                 *)
(***************************************************************************)
\* the item sequences of length n: every added_at and is_local, URIs A, B, ..
ItemsOfLen(n) ==
    {[i \in 1..n |-> Song(f[i][1], f[i][2], UriNames[i])] :
        f \in [1..n -> Stamps \X BOOLEAN]}

ItemsUpTo(n) == UNION {ItemsOfLen(k) : k \in 0..n}

Digit(d) == <<"0", "1", "2", "3", "4", "5", "6", "7", "8", "9">>[d + 1]

\* item i of a long playlist: "t000", "t001", ...
LongSong(i) ==
    Song(<<T2021_01, T2021_06, T2020_01>>[(i % 3) + 1], i % 5 = 0,
         "t" \o Digit(i \div 100) \o Digit((i \div 10) % 10) \o Digit(i % 10))

\* items offset+1 .. offset+n of a long playlist
LongItems(offset, n) == [i \in 1..n |-> LongSong(offset + i)]

\* a playlist with a local item and with two items added at the same time
MixedSource ==
    <<Song(T2021_01, FALSE, "A"), Song(T2021_06, FALSE, "B"),
      Song(T2020_01, TRUE, "C"), Song(T2021_01, FALSE, "D"),
      Song(T2021_06, FALSE, "E"), Song(T2020_01, TRUE, "F")>>

MixedUpTo(n) == {SubSeq(MixedSource, 1, k) : k \in 0..Min(n, Len(MixedSource))}

\* five streamable tracks, and a playlist one item longer than a page
FiveSource == [i \in 1..5 |-> Song(<<T2021_01, T2021_06, T2020_01>>[(i % 3) + 1], FALSE, UriNames[i])]
LongSource == LongItems(0, PageLimit + 1)

\* what the destination holds before the first run
Dests == {<<>>, <<Song(T2021_01, FALSE, "Z")>>}

EnvFull(to) ==
    [FROM |-> Some("P1"), TO |-> Some(to), REFRESH_TOKEN |-> Some("refresh"),
     CLIENT_ID |-> Some("id"), CLIENT_SECRET |-> Some("secret")]

Envs ==
    {EnvFull("P2"), EnvFull("P1")}
        \cup {[EnvFull("P2") EXCEPT ![v] = None] : v \in EnvVars}

\* status codes the service answers with; what a response carries: its
\* status and whether its body deserializes
StatusesFew == {200, 404}
Statuses == {199, 200, 299, 300, 404}
Responses(S) == [status : S, json : BOOLEAN]

\* FROM and TO differ, FROM and TO are the same, a variable is missing
EnvsFew == {EnvFull("P2"), EnvFull("P1"), [EnvFull("P2") EXCEPT !["CLIENT_ID"] = None]}

InitWith(sources, envs, dests) ==
    /\ mainPc = "loop"
    /\ env \in envs
    /\ playlist \in {[p \in Playlists |-> IF p = "P1" THEN src ELSE d] :
                        src \in sources, d \in dests}
    /\ run = [r \in Runs |-> FreshRun]

(***************************************************************************)
(* Spec: the whole program; a tick may come while a run is in progress.    *)
(***************************************************************************)
Init == InitWith(MixedUpTo(MaxItems), EnvsFew, {<<Song(T2021_01, FALSE, "Z")>>})

Next ==
    \/ \E r \in Runs : Tick(r)
    \/ \E r \in Runs, clientOk \in BOOLEAN, resp \in Responses(StatusesFew) :
          GetToken(r, clientOk, resp)
    \/ \E r \in Runs, resp \in Responses(StatusesFew) : ResetReversed(r, resp)
    \/ \E r \in Runs, resp \in Responses(StatusesFew) :
          GetSongs(r, resp, ServerPage(playlist[run[r].from], run[r].offset))
    \/ \E r \in Runs : Reorder(r)
    \/ \E r \in Runs, resp \in Responses(StatusesFew) : AddSongs(r, resp)
    \/ \E r \in Runs : ReturnOk(r)
    \/ \E dur \in {"Some", "None"} : MainLoop(dur)

Spec == Init /\ [][Next]_vars

(***************************************************************************)
(* SpecSolo: every run ends before the next tick.                          *)
(***************************************************************************)
InitSolo == InitWith(ItemsUpTo(MaxSrc) \cup {FiveSource, LongSource}, Envs, Dests)

NextSolo ==
    \/ \E r \in Runs : TickSolo(r)
    \/ \E r \in Runs, clientOk \in BOOLEAN, resp \in Responses(Statuses) :
          GetToken(r, clientOk, resp)
    \/ \E r \in Runs, resp \in Responses(Statuses) : ResetReversed(r, resp)
    \/ \E r \in Runs, resp \in Responses(Statuses) :
          GetSongs(r, resp, ServerPage(playlist[run[r].from], run[r].offset))
    \/ \E r \in Runs : Reorder(r)
    \/ \E r \in Runs, resp \in Responses(Statuses) : AddSongs(r, resp)
    \/ \E r \in Runs : ReturnOk(r)
    \/ \E dur \in {"Some", "None"} : MainLoop(dur)

SpecSolo == InitSolo /\ [][NextSolo]_vars

(***************************************************************************)
(* SpecOrder: the ordering and the append loop (lines 71-98) for every     *)
(* item sequence get_songs can have returned, up to MaxLen items.          *)
(***************************************************************************)
Ok200 == [status |-> 200, json |-> TRUE]

\* the run that got its token and reset the destination
RunAtFetch ==
    ResetStep(TokenStep([FreshRun EXCEPT !.pc = "start"], EnvFull("P2"), TRUE, Ok200),
              Ok200)

\* the run to which get_songs has just returned the one page of src
RunAtSort(src) == FetchStep(RunAtFetch, Ok200, ServerPage(src, 0))

InitOrder ==
    /\ mainPc = "loop"
    /\ env = EnvFull("P2")
    /\ \E src \in ItemsUpTo(MaxLen) :
          /\ playlist = [p \in Playlists |-> IF p = "P1" THEN src ELSE <<>>]
          /\ run = [r \in Runs |-> IF r = 1 THEN RunAtSort(src) ELSE FreshRun]

NextOrder ==
    \/ Reorder(1)
    \/ \E resp \in Responses(Statuses) : AddSongs(1, resp)
    \/ ReturnOk(1)

SpecOrder == InitOrder /\ [][NextOrder]_vars

(***************************************************************************)
(* SpecPages: one call of get_songs (lines 125-160) against a service that *)
(* answers each request with any page of 0, 13 or 50 items, with or        *)
(* without a next cursor (the playlist may be edited between requests, so  *)
(* the pages are not derived from the variable playlist here).             *)
(***************************************************************************)
PageSizes == {0, 13, PageLimit}

AnyPage(offset, n, next) == [items |-> LongItems(offset, n), next |-> next]

GetSongsAny(r, resp, n, next) ==
    /\ run[r].offset < MaxPages * PageLimit
    /\ GetSongs(r, resp, AnyPage(run[r].offset, n, next))

InitPages ==
    /\ mainPc = "loop"
    /\ env = EnvFull("P2")
    /\ playlist = [p \in Playlists |-> <<>>]
    /\ run = [r \in Runs |-> IF r = 1 THEN RunAtFetch ELSE FreshRun]

NextPages ==
    \E resp \in Responses(Statuses), n \in PageSizes, next \in {None, Some("next")} :
        GetSongsAny(1, resp, n, next)

SpecPages == InitPages /\ [][NextPages]_vars

(***************************************************************************)
(* Vocabulary of the properties.                                           *)
(***************************************************************************)
RECURSIVE Flatten(_)
Flatten(ss) == IF ss = <<>> THEN <<>> ELSE Head(ss) \o Flatten(Tail(ss))

IsPost(e) == e.m = "POST"
IsGet(e) == e.m = "GET"

\* the uris of the append requests of a log, in call order
Batches(log) == LET posts == SelectSeq(log, IsPost) IN [k \in 1..Len(posts) |-> posts[k].arg]

\* what the page requests of a log brought (Some(page) or None), in call order
Pages(log) == LET gets == SelectSeq(log, IsGet) IN [k \in 1..Len(gets) |-> gets[k].body]

Sizes(ss) == [k \in 1..Len(ss) |-> Len(ss[k])]

LastSent(rn) == IF rn.log = <<>> THEN "" ELSE rn.log[Len(rn.log)].m

NonLocalIdx(items) == {i \in 1..Len(items) : ~items[i].is_local}

\* item j is output before item i: added later, or at the same time and
\* later in the input
ComesBefore(items, j, i) ==
    LET c == StrCmp(items[j].added_at, items[i].added_at)
    IN  c = 1 \/ (c = 0 /\ j > i)

\* the reference ordering, by counting: the non-local item with k-1 items
\* before it is output k-th
NewestFirst(items) ==
    LET idx == NonLocalIdx(items)
        rank == [i \in idx |-> 1 + Cardinality({j \in idx : ComesBefore(items, j, i)})]
    IN  [k \in 1..Cardinality(idx) |-> items[CHOOSE i \in idx : rank[i] = k].uri]

Pos(seq, u) == CHOOSE k \in 1..Len(seq) : seq[k] = u

ExampleItems ==
    <<Song(T2021_01, FALSE, "A"), Song(T2021_06, FALSE, "B"), Song(T2020_01, FALSE, "C")>>

\* the run has the ordering and has appended nothing yet
JustOrdered(rn) == rn.pc = "loop" /\ LastSent(rn) = "GET"

(***************************************************************************)
(* C1: when a run returns Ok and FROM and TO differ (no other run writes:  *)
(* SpecSolo), the destination holds exactly the URIs of the source's       *)
(* non-local items, newest added_at first, and nothing else.               *)
(***************************************************************************)
C1_DestinationIsNewestFirst ==
    \A r \in Runs :
        (run[r].pc = "ok" /\ run[r].from # run[r].to)
            => MapUri(playlist[run[r].to]) = NewestFirst(playlist[run[r].from])

C1_Witness ==
    \E r \in Runs :
        /\ run[r].pc = "ok" /\ run[r].to = "P2"
        /\ playlist["P1"] = LongSource
        /\ Len(playlist["P2"]) > PageLimit - 10

(***************************************************************************)
(* C2: at every moment at most one do_work run is in progress.             *)
(***************************************************************************)
C2_NoOverlap == Cardinality({r \in Runs : InProgress(run[r])}) <= 1

(***************************************************************************)
(* C3: when the token endpoint answers non-2xx the run fails there: the    *)
(* token request is the only request of the run, and the step leaves the   *)
(* playlists as they were.                                                 *)
(***************************************************************************)
C3_TokenFailureEndsRun ==
    /\ [](\A r \in Runs :
            run[r].log # <<>> =>
                /\ run[r].log[1].m = "TOKEN"
                /\ (Len(run[r].log) = 1 /\ run[r].status \notin 200..299)
                      => run[r].pc = "err"
                /\ ~run[r].log[1].ok => Len(run[r].log) = 1 /\ run[r].pc = "err"
                /\ Len(run[r].log) = 1
                      => (run[r].log[1].ok <=> run[r].status \in 200..299))
    /\ [][\A r \in Runs :
            (run[r].pc = "start" /\ run'[r].pc = "err") => playlist' = playlist]_vars

C3_Witness ==
    \E r \in Runs :
        /\ run[r].pc = "err" /\ Len(run[r].log) = 1 /\ run[r].status = 404
        /\ MapUri(playlist["P2"]) = <<"Z">>

(***************************************************************************)
(* C4: a failed run does not end the process: main is still in its loop,   *)
(* the next tick can start a run, and that run starts with fresh locals,   *)
(* at token acquisition.                                                   *)
(***************************************************************************)
C4_FailureIsNotFatal ==
    \A r \in Runs :
        /\ run[r].pc = "err" => (mainPc = "loop" /\ ENABLED (\E q \in Runs : TickSolo(q)))
        /\ (run[r].pc = "start" /\ run[r].prev.pc = "err")
              => run[r] = [FreshRun EXCEPT !.pc = "start", !.prev = run[r].prev]

C4_Witness ==
    \E r \in Runs :
        /\ run[r].prev.pc = "err" /\ run[r].prev.last = "POST"
        /\ run[r].pc = "reset" /\ run[r].token /\ Len(run[r].log) = 1
        /\ mainPc = "loop"

(***************************************************************************)
(* C5: the ordering do_work computes is the reference ordering: the        *)
(* non-local items, ascending by added_at as strings, reversed, as URIs;   *)
(* the example of three items gives [B, A, C].                             *)
(***************************************************************************)
C5_OrderIsReference ==
    \A r \in Runs :
        JustOrdered(run[r]) =>
            /\ run[r].iter = NewestFirst(run[r].songs)
            /\ run[r].songs = ExampleItems => run[r].iter = <<"B", "A", "C">>

C5_Witness ==
    \E r \in Runs :
        JustOrdered(run[r]) /\ run[r].songs = ExampleItems /\ run[r].iter = <<"B", "A", "C">>

(***************************************************************************)
(* C6: the ascending sort is stable: of two non-local items with equal     *)
(* added_at the one fetched first is first in the sorted sequence and      *)
(* comes after the other in the final order.                               *)
(***************************************************************************)
C6_SortIsStable ==
    \A r \in Runs :
        JustOrdered(run[r]) =>
            LET songs == run[r].songs
                sorted == MapUri(SortedBy(FilterNotLocal(songs)))
            IN  \A i, j \in NonLocalIdx(songs) :
                    (i < j /\ StrCmp(songs[i].added_at, songs[j].added_at) = 0)
                        => /\ Pos(sorted, songs[i].uri) < Pos(sorted, songs[j].uri)
                           /\ Pos(run[r].iter, songs[i].uri) > Pos(run[r].iter, songs[j].uri)

C6_Witness ==
    \E r \in Runs :
        /\ JustOrdered(run[r])
        /\ Len(run[r].songs) = 3
        /\ \A i \in 1..3 : ~run[r].songs[i].is_local
        /\ run[r].songs[1].added_at = run[r].songs[3].added_at
        /\ run[r].songs[2].added_at = T2020_01 /\ run[r].songs[1].added_at = T2021_01
        /\ run[r].iter = <<"C", "A", "B">>

(***************************************************************************)
(* C7: no URI of an append request comes from an item with is_local =      *)
(* true, and a successful run has appended as many URIs as it fetched      *)
(* non-local items.                                                        *)
(***************************************************************************)
C7_NoLocalAppended ==
    \A r \in Runs :
        LET uris == Flatten(Batches(run[r].log))
            songs == run[r].songs
        IN  /\ \A k \in 1..Len(uris) :
                  /\ \E i \in NonLocalIdx(songs) : songs[i].uri = uris[k]
                  /\ ~\E i \in 1..Len(songs) : songs[i].is_local /\ songs[i].uri = uris[k]
            /\ run[r].pc = "ok" => Len(uris) = Cardinality(NonLocalIdx(songs))

C7_Witness ==
    \E r \in Runs :
        /\ run[r].pc = "ok"
        /\ Len(run[r].songs) = 3
        /\ run[r].songs[1].is_local /\ run[r].songs[1].added_at = T2021_06
        /\ Flatten(Batches(run[r].log)) = <<"B", "C">>

(***************************************************************************)
(* C8: get_songs returns Ok only on a page without next cursor, after      *)
(* pages that all had one, and returns the items of all pages received,    *)
(* concatenated in request order; pages of 50, 50 and 13 give 113 items.   *)
(***************************************************************************)
C8_AllPagesConcatenated ==
    \A r \in Runs :
        run[r].pc = "sort" =>
            LET pages == Pages(run[r].log)
                n == Len(pages)
            IN  /\ n >= 1
                /\ \A k \in 1..n : IsSome(pages[k])
                /\ \A k \in 1..n : IsSome(pages[k][1].next) <=> k < n
                /\ run[r].songs = Flatten([k \in 1..n |-> pages[k][1].items])
                /\ Sizes([k \in 1..n |-> pages[k][1].items]) = <<50, 50, 13>>
                      => Len(run[r].songs) = 113

C8_Witness ==
    \E r \in Runs :
        /\ run[r].pc = "sort"
        /\ Len(run[r].songs) = 113
        /\ LET pages == Pages(run[r].log)
           IN  Sizes([k \in 1..Len(pages) |-> pages[k][1].items]) = <<50, 50, 13>>

(***************************************************************************)
(* C9: the append loop sends the ordered URIs in batches of 2, the last of *)
(* 1 when their number is odd, none empty, in order: ceil(n/2) requests    *)
(* whose concatenation is the ordering; 5 URIs go as [2,2,1], 0 as none.   *)
(***************************************************************************)
C9_BatchesOfTwo ==
    \A r \in Runs :
        LET b == Batches(run[r].log)
            order == NewestFirst(run[r].songs)
            n == Len(order)
        IN  /\ \A k \in 1..Len(b) : Len(b[k]) \in 1..2
            /\ \A k \in 1..(Len(b) - 1) : Len(b[k]) = 2
            /\ run[r].pc = "ok" =>
                  /\ Flatten(b) = order
                  /\ Len(b) = (n + 1) \div 2
                  /\ n % 2 = 1 => Len(b[Len(b)]) = 1
                  /\ n = 5 => Sizes(b) = <<2, 2, 1>>
                  /\ n = 0 => b = <<>>

C9_Witness ==
    \E r \in Runs :
        /\ run[r].pc = "ok"
        /\ Len(run[r].songs) = 5
        /\ Sizes(Batches(run[r].log)) = <<2, 2, 1>>

(***************************************************************************)
(* C10: reset_reversed always sends the empty uris list to the destination *)
(* and a successful call leaves the destination empty, also when it was    *)
(* empty already (a second reset after a first).                           *)
(***************************************************************************)
C10_ResetIdempotent ==
    \A r \in Runs :
        /\ \A k \in 1..Len(run[r].log) :
              run[r].log[k].m = "PUT"
                  => run[r].log[k].arg = <<>> /\ run[r].log[k].pl = run[r].to
        /\ run[r].pc \in {"fetch", "sort"} => playlist[run[r].to] = <<>>

C10_Witness ==
    \E r \in Runs :
        /\ run[r].pc = "fetch" /\ run[r].offset = 0
        /\ run[r].prev.pc = "err" /\ run[r].prev.last = "GET"
        /\ run[r].from # run[r].to /\ playlist[run[r].from] # <<>>

C12_FetchFailureEndsRun ==
    \A r \in Runs :
        /\ \A k \in 1..Len(run[r].log) :
              (run[r].log[k].m = "GET" /\ ~run[r].log[k].ok) => k = Len(run[r].log)
        /\ (LastSent(run[r]) = "GET" /\ run[r].status \notin 200..299)
              => /\ run[r].pc = "err"
                 /\ run[r].vec = <<>> /\ run[r].songs = <<>> /\ run[r].iter = <<>>
                 /\ Batches(run[r].log) = <<>>

C12_Witness ==
    \E r \in Runs :
        /\ run[r].pc = "err" /\ LastSent(run[r]) = "GET" /\ run[r].status = 404
        /\ LET pages == Pages(run[r].log)
           IN  /\ Len(pages) = 2
               /\ IsSome(pages[1]) /\ Len(pages[1][1].items) = PageLimit
               /\ pages[2] = None

\* the uris of the append requests of a log that were answered 2xx
IsPostOk(e) == e.m = "POST" /\ e.ok
BatchesOk(log) == LET posts == SelectSeq(log, IsPostOk) IN [k \in 1..Len(posts) |-> posts[k].arg]

Phase(m) == CASE m = "TOKEN" -> 1 [] m = "PUT" -> 2 [] m = "GET" -> 3 [] m = "POST" -> 4

(***************************************************************************)
(* C15: the requests of a run are sent one after the other in the order    *)
(* token, reset, page fetches, appends: one token request, then one reset, *)
(* and each request is sent only after the one before was answered with    *)
(* success; a page fetch follows a page with a next cursor, the first      *)
(* append follows the page without one; the run waits at the call that     *)
(* follows its last request.                                               *)
(***************************************************************************)
C15_SequentialByPhase ==
    \A r \in Runs :
        LET log == run[r].log
            n == Len(log)
        IN  /\ n >= 1 => log[1].m = "TOKEN"
            /\ n >= 2 => log[2].m = "PUT"
            /\ n >= 3 => log[3].m = "GET"
            /\ \A k \in 3..n : log[k].m \in {"GET", "POST"}
            /\ \A k \in 1..(n - 1) :
                  /\ log[k].ok
                  /\ Phase(log[k].m) <= Phase(log[k + 1].m)
                  /\ log[k].m = "GET" =>
                        /\ IsSome(log[k].body)
                        /\ IsSome(log[k].body[1].next) <=> log[k + 1].m = "GET"
            /\ run[r].pc = "start" => n = 0
            /\ run[r].pc = "reset" => LastSent(run[r]) = "TOKEN"
            /\ run[r].pc = "fetch" => LastSent(run[r]) \in {"PUT", "GET"}
            /\ run[r].pc = "sort" => LastSent(run[r]) = "GET"
            /\ run[r].pc \in {"loop", "ok"} => LastSent(run[r]) \in {"GET", "POST"}

C15_Witness ==
    \E r \in Runs :
        /\ run[r].pc = "ok" /\ Len(run[r].log) > 4
        /\ [k \in 1..4 |-> run[r].log[k].m] = <<"TOKEN", "PUT", "GET", "GET">>
        /\ Len(Batches(run[r].log)) = Len(run[r].log) - 4
        /\ Len(Batches(run[r].log)) > 2

\* the page requests of a log, in call order
Gets(log) == SelectSeq(log, IsGet)

\* the request brought a page, and the page has a next cursor
HasNext(e) == IsSome(e.body) /\ IsSome(e.body[1].next)

(***************************************************************************)
(* C16: the k-th page request of a get_songs call asks for offset          *)
(* 50*(k-1), whatever the pages before contained; the call is still in its *)
(* loop exactly while every page so far had a next cursor, has returned Ok *)
(* exactly when the last page had none, and Err exactly when the last      *)
(* request failed: as long as the pages carry a cursor the loop goes on.   *)
(***************************************************************************)
C16_OffsetsAndTermination ==
    \A r \in Runs :
        LET gets == Gets(run[r].log)
            n == Len(gets)
        IN  /\ \A k \in 1..n : gets[k].arg = PageLimit * (k - 1)
            /\ run[r].pc = "fetch" =>
                  /\ run[r].should_cont
                  /\ run[r].offset = PageLimit * n
                  /\ \A k \in 1..n : HasNext(gets[k])
            /\ (n >= 1 /\ \A k \in 1..n : HasNext(gets[k])) => run[r].pc = "fetch"
            /\ n >= 1 =>
                  /\ run[r].pc = "sort"
                        <=> (IsSome(gets[n].body) /\ ~IsSome(gets[n].body[1].next))
                  /\ run[r].pc = "err" <=> gets[n].body = None

C16_Witness ==
    \E r \in Runs :
        /\ run[r].pc = "fetch" /\ run[r].offset = 3 * PageLimit
        /\ LET pages == Pages(run[r].log)
           IN  /\ Len(pages) = 3
               /\ Sizes([k \in 1..3 |-> pages[k][1].items]) = <<0, 13, 50>>

(***************************************************************************)
(* C17: at each of the four calls the response counts as a success exactly *)
(* when its status is in 200..299; a response with any other status (199   *)
(* and 300 among them) fails the call and the run returns Err with that    *)
(* request as its last; a reset or append answered 2xx does not fail.      *)
(***************************************************************************)
C17_SuccessIs2xx ==
    \A r \in Runs :
        LET log == run[r].log
            n == Len(log)
        IN  n >= 1 =>
              /\ log[n].m \in {"TOKEN", "PUT", "GET", "POST"}
              /\ log[n].ok <=> run[r].status \in 200..299
              /\ run[r].status \notin 200..299 => run[r].pc = "err"
              /\ (run[r].status \in 200..299 /\ log[n].m \in {"PUT", "POST"})
                    => run[r].pc # "err"
              /\ \A k \in 1..(n - 1) : log[k].ok

C17_Witness ==
    \E r \in Runs :
        /\ run[r].pc = "err" /\ run[r].status = 199
        /\ LastSent(run[r]) = "PUT" /\ Len(run[r].log) = 2
        /\ playlist[run[r].to] # <<>>

Methods(log) == [k \in 1..Len(log) |-> log[k].m]

(***************************************************************************)
(* C19: a run with FROM = TO is not refused: its reset empties the one     *)
(* playlist whatever it held, its one page request then brings zero items, *)
(* it sends no append request, and when it returns Ok the playlist is      *)
(* empty.                                                                  *)
(***************************************************************************)
C19_SamePlaylistIsEmptied ==
    /\ [](\A r \in Runs :
            (run[r].from = run[r].to /\ run[r].pc \in {"fetch", "sort", "loop", "ok"})
                => /\ playlist[run[r].to] = <<>>
                   /\ Batches(run[r].log) = <<>>
                   /\ run[r].pc # "fetch" =>
                         /\ Methods(run[r].log) = <<"TOKEN", "PUT", "GET">>
                         /\ run[r].songs = <<>>
                         /\ run[r].iter = <<>>)
    /\ [][\A r \in Runs :
            (run[r].pc = "reset" /\ run[r].from = run[r].to /\ run'[r].pc = "fetch")
                => playlist'[run[r].from] = <<>>]_vars

C19_Witness ==
    \E r \in Runs :
        /\ run[r].pc = "ok" /\ run[r].from = "P1" /\ run[r].to = "P1"
        /\ Methods(run[r].log) = <<"TOKEN", "PUT", "GET">>
        /\ playlist["P1"] = <<>>

(***************************************************************************)
(* C20: when FROM, TO, REFRESH_TOKEN, CLIENT_ID or CLIENT_SECRET is not    *)
(* set, every run returns Err from its first step without having sent a    *)
(* request, and no step changes a playlist.                                *)
(***************************************************************************)
C20_MissingConfigFailsEarly ==
    /\ []((\E v \in EnvVars : env[v] = None) =>
            \A r \in Runs :
                /\ run[r].pc \in {"none", "start", "err"}
                /\ run[r].log = <<>>
                /\ ~run[r].token)
    /\ [][(\E v \in EnvVars : env[v] = None) => playlist' = playlist]_vars

C20_Witness ==
    \E r \in Runs :
        /\ env["CLIENT_SECRET"] = None
        /\ \A v \in EnvVars \ {"CLIENT_SECRET"} : env[v] # None
        /\ run[r].pc = "err" /\ run[r].log = <<>>
        /\ run[r].prev.pc = "err"
        /\ MapUri(playlist["P2"]) = <<"Z">>

====
